---- MODULE Spec2Model ----
(***************************************************************************)
(* Session timing engine of the interval timer (contexts/TimerContext.tsx) *)
(* together with the setup screen's time editor (app/(tabs)/index.tsx).    *)
(*                                                                         *)
(* appState is the React state of TimerProvider.  Every setAppState        *)
(* updater of the source is an operator taking prev and returning the next *)
(* appState; every handler is an action applying its updater.  The fields  *)
(* timerStartTime and backgroundTimestamp of TimerAppState are written but *)
(* never read by the source and are left out of the record.                *)
(*                                                                         *)
(* Sequences are 1-based: the source's timers[i] is timers[i + 1] here,    *)
(* while currentTimerIndex keeps the source's 0-based value (-1 = none).   *)
(***************************************************************************)
EXTENDS Integers, Sequences, FiniteSets, TLC

VARIABLES
    appState,      \* [timers, currentTimerIndex, isRunning]
    storage,       \* AsyncStorage: [timestamp, state], each None or Some(value),
                   \* and malformed: the text under the state key is not JSON
    now,           \* Date.now() in ms, re-based to 0 whenever no session is running
    appStatus,     \* AppState.currentState: "active" | "background"
    keepAwake,     \* expo-keep-awake: TRUE while the wake lock is held
    handlerState,  \* the appState that handleAppStateChange's closure holds
    ticks,         \* interval firings since the session was started
    runEdits,      \* segment edits applied while running, in this session or the last
    lastOp,        \* the last handler that ran, with its result
    calls          \* the async handlers that stand at an await, with their locals

vars == <<appState, storage, now, appStatus, keepAwake, handlerState, ticks, runEdits,
         lastOp, calls>>

\* an absent key or value is the empty sequence, a present one is <<value>>
None == <<>>
Some(v) == <<v>>
ValueOf(opt) == opt[1]

\* ---------------------------------------------------------------- bounds
MaxTimers == 2          \* addTimer is not offered beyond this many timers
MaxIds == 3             \* generateId draws from 1..MaxIds
MaxMinuteInput == 0     \* minutes typed into the setup screen: -1..MaxMinuteInput
MaxSecondInput == 3     \* seconds typed into the setup screen: -1..MaxSecondInput
ClockStep == 800        \* ms by which one ClockAdvance moves Date.now()
MaxNow == 4000          \* ms of background time that are explored
MaxTicks == 4           \* interval firings explored in one running session
MaxRunEdits == 1        \* segment edits explored while one session is running
MaxLabelText == 0       \* label texts typed into the setup screen: 0 (''), 1, ...
MaxCompareTicks == 3    \* ticks compared with one reconciliation of as many seconds

\* ------------------------------------------------------ program constants
DefaultMinutes == 5
DefaultSeconds == 0
MaxMinutesValue == 99
MaxSecondsValue == 59
SecondsPerMinute == 60
MsPerSecond == 1000

Ids == 1..MaxIds
Labels == 0..MaxLabelText
EmptyLabel == 0
Statuses == {"pending", "running", "completed"}

Min(a, b) == IF a < b THEN a ELSE b
Max(a, b) == IF a > b THEN a ELSE b

\* ------------------------------------------------------------ data model
\* interface Timer
Timer(id, label, minutes, seconds, status, originalMinutes, originalSeconds) ==
    [id |-> id, label |-> label, minutes |-> minutes, seconds |-> seconds,
     status |-> status, originalMinutes |-> originalMinutes,
     originalSeconds |-> originalSeconds]

\* timers.map(f): f takes the timer and its 0-based index
MapTimers(timers, f(_, _)) == [i \in 1..Len(timers) |-> f(timers[i], i - 1)]

\* the object literal of addTimer and of the initial state
NewTimer(id) ==
    Timer(id, EmptyLabel, DefaultMinutes, DefaultSeconds, "pending", DefaultMinutes, DefaultSeconds)

TimerIds(timers) == {timers[i].id : i \in 1..Len(timers)}

\* ------------------------------------------------------- segment editing
\* faulty variant: the new timer is put first
AddTimerUpdatePrepends(prev, id) ==
    [prev EXCEPT !.timers = <<NewTimer(id)>> \o prev.timers]

\* addTimer: prev => ({...prev, timers: [...prev.timers, newTimer]})
AddTimerUpdate(prev, id) ==
    [prev EXCEPT !.timers = Append(prev.timers, NewTimer(id))]

\* {...timer, ...updates}: updates is a function from some field names to values
Merge(timer, updates) ==
    [f \in DOMAIN timer |-> IF f \in DOMAIN updates THEN updates[f] ELSE timer[f]]

\* updateTimer: every timer whose id matches is merged with updates
UpdateTimerUpdate(prev, id, updates) ==
    [prev EXCEPT !.timers =
        [i \in 1..Len(prev.timers) |->
            IF prev.timers[i].id = id THEN Merge(prev.timers[i], updates)
            ELSE prev.timers[i]]]

\* faulty variant: with no match the first timer goes
RemoveTimerUpdateOrFirst(prev, id) ==
    IF id \in TimerIds(prev.timers)
    THEN [prev EXCEPT !.timers = SelectSeq(prev.timers, LAMBDA t : t.id # id)]
    ELSE [prev EXCEPT !.timers = SubSeq(prev.timers, 2, Len(prev.timers))]

\* removeTimer: timers.filter(timer => timer.id !== id)
RemoveTimerUpdate(prev, id) ==
    [prev EXCEPT !.timers = SelectSeq(prev.timers, LAMBDA t : t.id # id)]

\* handleTimeChange: the clamped value goes to the field and to its original
ClampTime(field, numValue) ==
    Min(Max(0, numValue), IF field = "minutes" THEN MaxMinutesValue ELSE MaxSecondsValue)

HandleTimeChangeUpdates(field, numValue) ==
    IF field = "minutes"
    THEN [f \in {"minutes", "originalMinutes"} |-> ClampTime(field, numValue)]
    ELSE [f \in {"seconds", "originalSeconds"} |-> ClampTime(field, numValue)]

\* ------------------------------------------------------- session updaters
RemainingSeconds(timer) == timer.minutes * SecondsPerMinute + timer.seconds
OriginalSeconds(timer) == timer.originalMinutes * SecondsPerMinute + timer.originalSeconds

\* prev.timers[prev.currentTimerIndex] is undefined outside 0..length-1
HasCurrentTimer(prev) ==
    prev.currentTimerIndex >= 0 /\ prev.currentTimerIndex < Len(prev.timers)

CurrentTimer(prev) == prev.timers[prev.currentTimerIndex + 1]

\* faulty variant: every instead of some
HasInvalidTimerEvery(timers) ==
    \A i \in 1..Len(timers) :
        timers[i].originalMinutes = 0 /\ timers[i].originalSeconds = 0

\* startMeditation: timers.some(originalMinutes === 0 && originalSeconds === 0)
HasInvalidTimer(timers) ==
    \E i \in 1..Len(timers) :
        timers[i].originalMinutes = 0 /\ timers[i].originalSeconds = 0

\* faulty variant: the remaining time is not reset
StartTimerKeepsTime(timer, index) ==
    [timer EXCEPT !.status = IF index = 0 THEN "running" ELSE "pending"]

\* startMeditation: the setAppState updater
StartTimer(timer, index) ==
    [timer EXCEPT !.status = IF index = 0 THEN "running" ELSE "pending",
                  !.minutes = timer.originalMinutes,
                  !.seconds = timer.originalSeconds]

StartUpdate(prev) ==
    [prev EXCEPT !.isRunning = TRUE,
                 !.currentTimerIndex = 0,
                 !.timers = MapTimers(prev.timers, StartTimer)]

\* faulty variant: the remaining time is not reset
StopTimerKeepsTime(timer, index) == [timer EXCEPT !.status = "pending"]

\* stopMeditation: the setAppState updater
StopTimer(timer, index) ==
    [timer EXCEPT !.status = "pending",
                  !.minutes = timer.originalMinutes,
                  !.seconds = timer.originalSeconds]

StopUpdate(prev) ==
    [prev EXCEPT !.isRunning = FALSE,
                 !.currentTimerIndex = -1,
                 !.timers = MapTimers(prev.timers, StopTimer)]

\* ---------------------------------------------------------- countdown tick
\* faulty variant: the status of the current timer is not looked at
TickActsAnyStatus(prev) == HasCurrentTimer(prev)

\* the updater returns prev when there is no current timer or it is not running
TickActs(prev) == HasCurrentTimer(prev) /\ CurrentTimer(prev).status = "running"

TickNewSeconds(timer) == timer.seconds - 1
TickNewMinutes(timer) ==
    IF TickNewSeconds(timer) < 0 THEN timer.minutes - 1 ELSE timer.minutes
\* faulty variant: seconds stop at 0 instead of wrapping to 59
TickAdjustedSecondsNoBorrow(timer) ==
    IF TickNewSeconds(timer) < 0 THEN 0 ELSE TickNewSeconds(timer)

TickAdjustedSeconds(timer) ==
    IF TickNewSeconds(timer) < 0 THEN MaxSecondsValue ELSE TickNewSeconds(timer)

\* "Timer completed": newMinutes < 0
TickCompletes(prev) == TickActs(prev) /\ TickNewMinutes(CurrentTimer(prev)) < 0

NextTimerIndex(prev) == prev.currentTimerIndex + 1
HasNextTimer(prev) == NextTimerIndex(prev) < Len(prev.timers)

\* faulty variant: the index always advances, past the end after the last timer
TickCompleteUpdatePastEnd(prev) ==
    [prev EXCEPT
        !.currentTimerIndex = NextTimerIndex(prev),
        !.isRunning = HasNextTimer(prev),
        !.timers =
            [i \in 1..Len(prev.timers) |->
                IF i - 1 = prev.currentTimerIndex
                THEN [prev.timers[i] EXCEPT !.status = "completed",
                                            !.minutes = 0, !.seconds = 0]
                ELSE IF i - 1 = NextTimerIndex(prev) /\ HasNextTimer(prev)
                THEN [prev.timers[i] EXCEPT !.status = "running",
                                            !.minutes = prev.timers[i].originalMinutes,
                                            !.seconds = prev.timers[i].originalSeconds]
                ELSE prev.timers[i]]]

TickCompleteUpdate(prev) ==
    [prev EXCEPT
        !.currentTimerIndex = IF HasNextTimer(prev) THEN NextTimerIndex(prev) ELSE -1,
        !.isRunning = HasNextTimer(prev),
        !.timers =
            [i \in 1..Len(prev.timers) |->
                IF i - 1 = prev.currentTimerIndex
                THEN [prev.timers[i] EXCEPT !.status = "completed",
                                            !.minutes = 0, !.seconds = 0]
                ELSE IF i - 1 = NextTimerIndex(prev) /\ HasNextTimer(prev)
                THEN [prev.timers[i] EXCEPT !.status = "running",
                                            !.minutes = prev.timers[i].originalMinutes,
                                            !.seconds = prev.timers[i].originalSeconds]
                ELSE prev.timers[i]]]

TickDecrementUpdate(prev) ==
    [prev EXCEPT
        !.timers =
            [i \in 1..Len(prev.timers) |->
                IF i - 1 = prev.currentTimerIndex
                THEN [prev.timers[i] EXCEPT
                        !.minutes = TickNewMinutes(prev.timers[i]),
                        !.seconds = TickAdjustedSeconds(prev.timers[i])]
                ELSE prev.timers[i]]]

\* faulty variant: the chime is played on every tick
TickChimesEveryTick(prev) == IF TickActs(prev) THEN 1 ELSE 0

\* playChime() is called in the "Timer completed" branch
TickChimes(prev) == IF TickCompletes(prev) THEN 1 ELSE 0

\* the setAppState updater of the interval callback
TickUpdate(prev) ==
    IF ~TickActs(prev) THEN prev
    ELSE IF TickCompletes(prev) THEN TickCompleteUpdate(prev)
    ELSE TickDecrementUpdate(prev)

\* ------------------------------------------------ background reconciliation
\* Math.floor((Date.now() - parseInt(backgroundTimestamp)) / 1000)
ElapsedSeconds(dateNow, backgroundTimestamp) ==
    (dateNow - backgroundTimestamp) \div MsPerSecond

\* the while loop: [remaining, index, chimes] after it has run to its exit
RECURSIVE ReconcileLoop(_, _, _, _)
ReconcileLoop(timers, remainingSeconds, currentIndex, chimes) ==
    IF remainingSeconds <= 0 /\ currentIndex < Len(timers)
    THEN ReconcileLoop(
            timers,
            IF currentIndex + 1 < Len(timers)
            THEN remainingSeconds + OriginalSeconds(timers[currentIndex + 2])
            ELSE remainingSeconds,
            currentIndex + 1,
            chimes + 1)
    ELSE [remaining |-> remainingSeconds, index |-> currentIndex, chimes |-> chimes]

\* the updater returns prev unless a running current timer exists
ReconcileActs(prev) ==
    /\ prev.currentTimerIndex # -1
    /\ prev.isRunning
    /\ HasCurrentTimer(prev)
    /\ CurrentTimer(prev).status = "running"

\* faulty variant: the elapsed time is taken from the full duration
ReconcileStartFromOriginal(prev, elapsedSeconds) ==
    ReconcileLoop(prev.timers,
                  OriginalSeconds(CurrentTimer(prev)) - elapsedSeconds,
                  prev.currentTimerIndex, 0)

\* let remainingSeconds = minutes * 60 + seconds - elapsedSeconds, then the loop
ReconcileStart(prev, elapsedSeconds) ==
    ReconcileLoop(prev.timers,
                  RemainingSeconds(CurrentTimer(prev)) - elapsedSeconds,
                  prev.currentTimerIndex, 0)

\* faulty variant: the index is left where the loop started
ReconcileAllCompletedKeepsIndex(prev) ==
    [prev EXCEPT
        !.isRunning = FALSE,
        !.timers = [i \in 1..Len(prev.timers) |->
                        [prev.timers[i] EXCEPT !.status = "completed",
                                               !.minutes = 0, !.seconds = 0]]]

\* "All timers completed"
ReconcileAllCompleted(prev) ==
    [prev EXCEPT
        !.isRunning = FALSE,
        !.currentTimerIndex = -1,
        !.timers = [i \in 1..Len(prev.timers) |->
                        [prev.timers[i] EXCEPT !.status = "completed",
                                               !.minutes = 0, !.seconds = 0]]]

\* faulty variant: the timers the loop passed are left as they were
ReconcileLandingKeepsEarlier(prev, remainingSeconds, currentIndex) ==
    [prev EXCEPT
        !.currentTimerIndex = currentIndex,
        !.timers =
            [i \in 1..Len(prev.timers) |->
                IF i - 1 = currentIndex
                THEN [prev.timers[i] EXCEPT
                        !.status = "running",
                        !.minutes = remainingSeconds \div SecondsPerMinute,
                        !.seconds = remainingSeconds % SecondsPerMinute]
                ELSE prev.timers[i]]]

\* "Update current timer with remaining time"
ReconcileLanding(prev, remainingSeconds, currentIndex) ==
    [prev EXCEPT
        !.currentTimerIndex = currentIndex,
        !.timers =
            [i \in 1..Len(prev.timers) |->
                IF i - 1 < currentIndex
                THEN [prev.timers[i] EXCEPT !.status = "completed",
                                            !.minutes = 0, !.seconds = 0]
                ELSE IF i - 1 = currentIndex
                THEN [prev.timers[i] EXCEPT
                        !.status = "running",
                        !.minutes = remainingSeconds \div SecondsPerMinute,
                        !.seconds = remainingSeconds % SecondsPerMinute]
                ELSE prev.timers[i]]]

\* the setAppState updater of the 'active' branch, given elapsedSeconds > 0
ReconcileUpdate(prev, elapsedSeconds) ==
    IF ~ReconcileActs(prev) THEN prev
    ELSE LET r == ReconcileStart(prev, elapsedSeconds)
         IN  IF r.index >= Len(prev.timers)
             THEN ReconcileAllCompleted(prev)
             ELSE ReconcileLanding(prev, r.remaining, r.index)

\* chimes played inside the updater
ReconcileChimes(prev, elapsedSeconds) ==
    IF ~ReconcileActs(prev) THEN 0 ELSE ReconcileStart(prev, elapsedSeconds).chimes

\* faulty variant: the updater runs for elapsedSeconds >= 0
ApplyElapsedFromZero(prev, elapsedSeconds) ==
    IF elapsedSeconds >= 0 THEN ReconcileUpdate(prev, elapsedSeconds) ELSE prev

\* if (elapsedSeconds > 0) setAppState(...)
ApplyElapsed(prev, elapsedSeconds) ==
    IF elapsedSeconds > 0 THEN ReconcileUpdate(prev, elapsedSeconds) ELSE prev

\* startMeditation submits nothing to a notification service and keeps no
\* handles: the delays of the notifications a start schedules
ScheduledDelays(timers) == <<>>

\* ------------------------------------------------------------- handlers
\* AsyncStorage with neither key
EmptyStorage == [timestamp |-> None, state |-> None, malformed |-> FALSE]

\* what stands under the state key when its text is not JSON: no snapshot at
\* all (the value is a placeholder that no handler reads)
MalformedText == [timers |-> <<>>, currentTimerIndex |-> -1, isRunning |-> FALSE]

\* lastOp: the handler, what it returned (for the AppState handler: whether it
\* wrote or reconciled; for updateTimer and removeTimer: whether the id matched
\* a timer), the elapsed seconds it computed, the calls of playChime it made,
\* whether isRunning held when it was invoked, and whether a playChime it
\* awaited threw
Op(op, ret, elapsed, chimes) ==
    [op |-> op, ret |-> ret, elapsed |-> elapsed, chimes |-> chimes,
     wasRunning |-> appState.isRunning, chimeThrew |-> FALSE]

\* generateId: a fresh id (ids are opaque: the least one no timer carries)
GenerateId(timers) == CHOOSE id \in Ids \ TimerIds(timers) :
                        \A other \in Ids \ TimerIds(timers) : id <= other

\* Only now - timestamp is ever read, and only while isRunning: the clock is moved
\* while a timestamp is stored and is re-based once the session is over.
Rebase(next) == IF next.isRunning THEN now ELSE 0

\* The screens' buttons and inputs respond only while the app is in the
\* foreground; a backgrounded app gets interval firings and AppState events only.
UserCanAct == appStatus = "active"

\* the exploration budget of a running session: ticks is 0 while none runs,
\* runEdits starts again at 0 when a session is started from rest
EditAllowed == UserCanAct /\ (appState.isRunning => runEdits < MaxRunEdits)
CountEdit(next) ==
    /\ runEdits' = IF appState.isRunning THEN runEdits + 1 ELSE runEdits
    /\ ticks' = IF next.isRunning THEN ticks ELSE 0

\* useCallback(..., [appState.isRunning, appState.currentTimerIndex, playChime]):
\* the handler is rebuilt, and sees the new appState, only when one of these
\* changes.  It reads its appState.timers only when its isRunning is true.
Rerender(next) ==
    handlerState' =
        IF ~next.isRunning THEN None
        ELSE IF \/ handlerState = None
                \/ next.isRunning # appState.isRunning
                \/ next.currentTimerIndex # appState.currentTimerIndex
        THEN Some(next)
        ELSE handlerState

SetAppState(next) == appState' = next /\ Rerender(next)

\* The bound of the foreground handlers in flight at once
MaxForegroundHandlers == 2

\* A handler that is not in flight.  The locals of a call hold None until the
\* line that assigns them has run.
NoCalls ==
    [background |-> [pc |-> "idle", timestamp |-> None, state |-> None],
     foreground |-> [h \in 1..MaxForegroundHandlers |->
                        [pc |-> "idle", isRunning |-> FALSE,
                         backgroundTimestamp |-> None, savedState |-> None]],
     start      |-> [pc |-> "idle", validated |-> None],
     stop       |-> [pc |-> "idle"],
     subtracted |-> 0,
     lastCalled |-> "none"]

Init ==
    /\ appState = [timers |-> <<NewTimer(GenerateId(<<>>))>>,
                   currentTimerIndex |-> -1, isRunning |-> FALSE]
    /\ storage = EmptyStorage
    /\ now = 0
    /\ appStatus = "active"
    /\ keepAwake = FALSE
    /\ handlerState = None
    /\ ticks = 0
    /\ runEdits = 0
    /\ lastOp = [op |-> "init", ret |-> TRUE, elapsed |-> 0, chimes |-> 0,
                 wasRunning |-> FALSE, chimeThrew |-> FALSE]
    /\ calls = NoCalls

AddTimer ==
    /\ Len(appState.timers) < MaxTimers
    /\ EditAllowed
    /\ SetAppState(AddTimerUpdate(appState, GenerateId(appState.timers)))
    /\ CountEdit(appState')
    /\ lastOp' = Op("addTimer", TRUE, 0, 0)
    /\ UNCHANGED <<storage, now, appStatus, keepAwake, calls>>

\* the setup screen's minutes and seconds inputs
UpdateTime ==
    /\ EditAllowed
    /\ \E id \in Ids, field \in {"minutes", "seconds"} :
        \E numValue \in -1..(IF field = "minutes" THEN MaxMinuteInput ELSE MaxSecondInput) :
            /\ SetAppState(UpdateTimerUpdate(appState, id,
                                             HandleTimeChangeUpdates(field, numValue)))
            /\ lastOp' = Op("updateTimer", id \in TimerIds(appState.timers), 0, 0)
    /\ CountEdit(appState')
    /\ UNCHANGED <<storage, now, appStatus, keepAwake, calls>>

\* the setup screen's label input
UpdateLabel ==
    /\ EditAllowed
    /\ \E id \in Ids, text \in Labels :
        /\ SetAppState(UpdateTimerUpdate(appState, id, [f \in {"label"} |-> text]))
        /\ lastOp' = Op("updateTimer", id \in TimerIds(appState.timers), 0, 0)
    /\ CountEdit(appState')
    /\ UNCHANGED <<storage, now, appStatus, keepAwake, calls>>

RemoveTimer ==
    /\ EditAllowed
    /\ \E id \in Ids :
        /\ SetAppState(RemoveTimerUpdate(appState, id))
        /\ lastOp' = Op("removeTimer", id \in TimerIds(appState.timers), 0, 0)
    /\ CountEdit(appState')
    /\ UNCHANGED <<storage, now, appStatus, keepAwake, calls>>

\* faulty variant: a throw of either call leaves startMeditation
StartContinuesIfBothSucceed(chimed, activated) == chimed /\ activated

\* startMeditation: each of "await playChime()" and "await
\* activateKeepAwakeAsync()" stands in its own try block whose catch only logs
StartContinues(chimed, activated) == TRUE

\* startMeditation: validation, chime and wake lock (each of which may throw),
\* state update
StartMeditation ==
    /\ UserCanAct
    /\ IF HasInvalidTimer(appState.timers)
       THEN /\ lastOp' = Op("startMeditation", FALSE, 0, 0)
            /\ UNCHANGED <<appState, storage, now, appStatus, keepAwake, handlerState,
                           ticks, runEdits>>
       ELSE \E chimed, activated \in BOOLEAN :
            IF StartContinues(chimed, activated)
            THEN /\ keepAwake' = (activated \/ keepAwake)
                 /\ SetAppState(StartUpdate(appState))
                 /\ ticks' = 0
                 /\ runEdits' = IF appState.isRunning THEN runEdits ELSE 0
                 /\ lastOp' = [Op("startMeditation", TRUE, 0, 1)
                                    EXCEPT !.chimeThrew = ~chimed]
                 /\ UNCHANGED <<storage, now, appStatus>>
            ELSE /\ lastOp' = [Op("startMeditation", FALSE, 0, 1)
                                    EXCEPT !.chimeThrew = ~chimed]
                 /\ UNCHANGED <<appState, storage, now, appStatus, keepAwake,
                                handlerState, ticks, runEdits>>
    /\ UNCHANGED calls

\* stopMeditation: wake lock released, both keys removed, state reset
StopMeditation ==
    /\ UserCanAct
    /\ keepAwake' = FALSE
    /\ storage' = EmptyStorage
    /\ now' = 0
    /\ SetAppState(StopUpdate(appState))
    /\ ticks' = 0
    /\ UNCHANGED runEdits
    /\ lastOp' = Op("stopMeditation", TRUE, 0, 0)
    /\ UNCHANGED <<appStatus, calls>>

\* one firing of the interval, which exists while isRunning and an index is set
TickFires(counted) ==
    /\ appState.isRunning
    /\ appState.currentTimerIndex # -1
    /\ SetAppState(TickUpdate(appState))
    /\ ticks' = IF counted /\ appState'.isRunning THEN ticks + 1 ELSE 0
    /\ UNCHANGED runEdits
    /\ now' = Rebase(appState')
    /\ keepAwake' = IF TickCompletes(appState) /\ ~HasNextTimer(appState)
                    THEN FALSE ELSE keepAwake
    /\ lastOp' = Op("tick", TRUE, 0, TickChimes(appState))
    /\ UNCHANGED <<storage, appStatus, calls>>

\* the firings explored within a session
Tick == ticks < MaxTicks /\ TickFires(TRUE)

\* The effect's cleanup clears the interval after the render that follows the
\* state update: a firing can still arrive when a handler has just ended the
\* session.  Its updater runs on a session that is not running.
LateTick ==
    /\ ~appState.isRunning
    /\ lastOp.wasRunning
    /\ SetAppState(TickUpdate(appState))
    /\ lastOp' = Op("lateTick", TRUE, 0, TickChimes(appState))
    /\ UNCHANGED <<storage, now, appStatus, keepAwake, ticks, runEdits, calls>>

\* handleAppStateChange('background')
OnBackground ==
    /\ appStatus = "active"
    /\ appStatus' = "background"
    /\ IF appState.isRunning
       THEN storage' = [timestamp |-> Some(now), state |-> handlerState,
                        malformed |-> FALSE]
       ELSE UNCHANGED storage
    /\ lastOp' = Op("background", appState.isRunning, 0, 0)
    /\ UNCHANGED <<appState, now, keepAwake, handlerState, ticks, runEdits, calls>>

\* the 'active' branch reconciles when both keys are present and isRunning
ForegroundReconciles ==
    storage.timestamp # None /\ storage.state # None /\ appState.isRunning

ForegroundElapsed == ElapsedSeconds(now, ValueOf(storage.timestamp))

\* JSON.parse(savedState) throws on malformed text: the catch block is entered
\* before setAppState and before the two removeItem calls
ForegroundParseThrows == ForegroundReconciles /\ storage.malformed

\* handleAppStateChange('active')
OnForeground ==
    /\ appStatus = "background"
    /\ appStatus' = "active"
    /\ IF ForegroundParseThrows
       THEN /\ lastOp' = Op("foreground", FALSE, 0, 0)
            /\ UNCHANGED <<appState, handlerState, ticks, runEdits, storage>>
       ELSE IF ForegroundReconciles
       THEN /\ SetAppState(ApplyElapsed(appState, ForegroundElapsed))
            /\ ticks' = IF appState'.isRunning THEN ticks ELSE 0
            /\ UNCHANGED runEdits
            /\ lastOp' = Op("foreground", TRUE, ForegroundElapsed,
                            IF ForegroundElapsed > 0
                            THEN ReconcileChimes(appState, ForegroundElapsed) ELSE 0)
            /\ storage' = EmptyStorage
       ELSE /\ lastOp' = Op("foreground", FALSE, 0, 0)
            /\ UNCHANGED <<appState, handlerState, ticks, runEdits>>
            /\ storage' = EmptyStorage
    /\ now' = Rebase(appState')
    /\ UNCHANGED <<keepAwake, calls>>

\* The store outlives the program and is not its own: while the app is in the
\* background an entry the program wrote is lost, or the text under the state
\* key is replaced by text that is not JSON
StorageCorrupted ==
    /\ appStatus = "background"
    /\ storage.state # None
    /\ ~storage.malformed
    /\ \/ storage' = [storage EXCEPT !.malformed = TRUE, !.state = Some(MalformedText)]
       \/ storage.timestamp # None /\ storage' = [storage EXCEPT !.timestamp = None]
    /\ UNCHANGED <<appState, now, appStatus, keepAwake, handlerState, ticks,
                   runEdits, lastOp, calls>>

\* wall-clock time passing while a background timestamp is stored
ClockAdvance ==
    /\ appStatus = "background"
    /\ storage.timestamp # None
    /\ now + ClockStep <= MaxNow
    /\ now' = now + ClockStep
    /\ UNCHANGED <<appState, storage, appStatus, keepAwake, handlerState, ticks,
                   runEdits, lastOp, calls>>

Next ==
    \/ AddTimer
    \/ UpdateTime
    \/ UpdateLabel
    \/ RemoveTimer
    \/ StartMeditation
    \/ StopMeditation
    \/ Tick
    \/ LateTick
    \/ OnBackground
    \/ OnForeground
    \/ ClockAdvance

\* the program over a store that nothing else writes
Spec == Init /\ [][Next]_vars

\* the program over a store whose entries can be lost or garbled
NextStore ==
    \/ Next
    \/ StorageCorrupted

SpecStore == Init /\ [][NextStore]_vars

\* ------------------------------------------- handlers, await by await
\* Each async handler runs to its next await in one step: an awaited call
\* takes effect and the handler's continuation runs to the following await.
\* Continuations of different handlers interleave freely.

BackgroundCall == calls.background
ForegroundCall(h) == calls.foreground[h]

\* AppState 'inactive': the handler has no branch for it
OnInactive ==
    /\ appStatus = "active"
    /\ appStatus' = "inactive"
    /\ UNCHANGED <<appState, storage, now, keepAwake, handlerState, ticks, runEdits,
                   lastOp, calls>>

\* handleAppStateChange('background') up to its first await: Date.now() is
\* read and the two texts are those of the closure's appState
BackgroundEvent ==
    /\ appStatus \in {"active", "inactive"}
    /\ BackgroundCall.pc = "idle"
    /\ appStatus' = "background"
    /\ calls' = IF appState.isRunning
                THEN [calls EXCEPT !.background = [pc |-> "writeTimestamp",
                                                   timestamp |-> Some(now),
                                                   state |-> handlerState],
                                   !.subtracted = 0]
                ELSE calls
    /\ lastOp' = Op("background", appState.isRunning, 0, 0)
    /\ UNCHANGED <<appState, storage, now, keepAwake, handlerState, ticks, runEdits>>

\* await AsyncStorage.setItem(BACKGROUND_TIMESTAMP_KEY, ...)
BackgroundWriteTimestamp ==
    /\ BackgroundCall.pc = "writeTimestamp"
    /\ storage' = [storage EXCEPT !.timestamp = BackgroundCall.timestamp]
    /\ calls' = [calls EXCEPT !.background.pc = "writeState"]
    /\ UNCHANGED <<appState, now, appStatus, keepAwake, handlerState, ticks, runEdits,
                   lastOp>>

\* await AsyncStorage.setItem(TIMER_STATE_KEY, ...): the handler returns
BackgroundWriteState ==
    /\ BackgroundCall.pc = "writeState"
    /\ storage' = [storage EXCEPT !.state = BackgroundCall.state, !.malformed = FALSE]
    /\ calls' = [calls EXCEPT !.background = NoCalls.background]
    /\ UNCHANGED <<appState, now, appStatus, keepAwake, handlerState, ticks, runEdits,
                   lastOp>>

\* handleAppStateChange('active') up to its first await; appState.isRunning is
\* the closure's
ForegroundEvent(h) ==
    /\ appStatus \in {"background", "inactive"}
    /\ ForegroundCall(h).pc = "idle"
    /\ appStatus' = "active"
    /\ calls' = [calls EXCEPT !.foreground[h] = [pc |-> "readTimestamp",
                                                 isRunning |-> appState.isRunning,
                                                 backgroundTimestamp |-> None,
                                                 savedState |-> None]]
    /\ UNCHANGED <<appState, storage, now, keepAwake, handlerState, ticks, runEdits,
                   lastOp>>

\* const backgroundTimestamp = await AsyncStorage.getItem(BACKGROUND_TIMESTAMP_KEY)
ForegroundReadTimestamp(h) ==
    /\ ForegroundCall(h).pc = "readTimestamp"
    /\ calls' = [calls EXCEPT !.foreground[h].pc = "readState",
                              !.foreground[h].backgroundTimestamp = storage.timestamp]
    /\ UNCHANGED <<appState, storage, now, appStatus, keepAwake, handlerState, ticks,
                   runEdits, lastOp>>

\* if (backgroundTimestamp && savedState && appState.isRunning), on the handler's locals
CallReconciles(call, savedState) ==
    call.backgroundTimestamp # None /\ savedState # None /\ call.isRunning

\* const savedState = await AsyncStorage.getItem(TIMER_STATE_KEY), then the
\* if block: the elapsed seconds are applied to the state setAppState holds
\* when the updater runs.  A throw of JSON.parse ends the handler in its catch.
ForegroundReadState(h) ==
    LET call == ForegroundCall(h)
        reconciles == CallReconciles(call, storage.state)
        elapsedSeconds == ElapsedSeconds(now, ValueOf(call.backgroundTimestamp))
        subtracts == reconciles /\ elapsedSeconds > 0 /\ ReconcileActs(appState)
    IN  /\ call.pc = "readState"
        /\ IF reconciles /\ storage.malformed
           THEN /\ calls' = [calls EXCEPT !.foreground[h] = NoCalls.foreground[h]]
                /\ lastOp' = Op("foreground", FALSE, 0, 0)
                /\ UNCHANGED <<appState, handlerState>>
           ELSE /\ calls' = [calls EXCEPT
                                !.foreground[h].pc = "removeTimestamp",
                                !.foreground[h].savedState = storage.state,
                                !.subtracted = IF subtracts THEN @ + 1 ELSE @]
                /\ IF reconciles
                   THEN /\ SetAppState(ApplyElapsed(appState, elapsedSeconds))
                        /\ lastOp' = Op("foreground", TRUE, elapsedSeconds,
                                        IF elapsedSeconds > 0
                                        THEN ReconcileChimes(appState, elapsedSeconds)
                                        ELSE 0)
                   ELSE /\ lastOp' = Op("foreground", FALSE, 0, 0)
                        /\ UNCHANGED <<appState, handlerState>>
        /\ UNCHANGED <<storage, now, appStatus, keepAwake, ticks, runEdits>>

\* await AsyncStorage.removeItem(BACKGROUND_TIMESTAMP_KEY)
ForegroundRemoveTimestamp(h) ==
    /\ ForegroundCall(h).pc = "removeTimestamp"
    /\ storage' = [storage EXCEPT !.timestamp = None]
    /\ calls' = [calls EXCEPT !.foreground[h].pc = "removeState"]
    /\ UNCHANGED <<appState, now, appStatus, keepAwake, handlerState, ticks, runEdits,
                   lastOp>>

\* await AsyncStorage.removeItem(TIMER_STATE_KEY): the handler returns
ForegroundRemoveState(h) ==
    /\ ForegroundCall(h).pc = "removeState"
    /\ storage' = [storage EXCEPT !.state = None, !.malformed = FALSE]
    /\ calls' = [calls EXCEPT !.foreground[h] = NoCalls.foreground[h]]
    /\ UNCHANGED <<appState, now, appStatus, keepAwake, handlerState, ticks, runEdits,
                   lastOp>>

\* wall-clock time passing while a background timestamp is stored (only
\* Date.now() - timestamp is ever read)
ClockPasses ==
    /\ storage.timestamp # None
    /\ now + ClockStep <= MaxNow
    /\ now' = now + ClockStep
    /\ UNCHANGED <<appState, storage, appStatus, keepAwake, handlerState, ticks,
                   runEdits, lastOp, calls>>

\* no handler of an 'active' event is in flight
ForegroundSettled == \A h \in 1..MaxForegroundHandlers : ForegroundCall(h).pc = "idle"

\* The AppState listener over a session that was started at rest.  A background
\* period begins once the handlers of the earlier 'active' events have returned.
NextAppEvents ==
    \/ ~appState.isRunning /\ StartMeditation
    \/ OnInactive
    \/ ForegroundSettled /\ BackgroundEvent
    \/ BackgroundWriteTimestamp
    \/ BackgroundWriteState
    \/ \E h \in 1..MaxForegroundHandlers : ForegroundEvent(h)
    \/ \E h \in 1..MaxForegroundHandlers : ForegroundReadTimestamp(h)
    \/ \E h \in 1..MaxForegroundHandlers : ForegroundReadState(h)
    \/ \E h \in 1..MaxForegroundHandlers : ForegroundRemoveTimestamp(h)
    \/ \E h \in 1..MaxForegroundHandlers : ForegroundRemoveState(h)
    \/ ClockPasses

SpecAppEvents == Init /\ [][NextAppEvents]_vars

\* startMeditation up to "await playChime()": the validation reads the
\* closure's appState.timers, the timers of the render the button was pressed in
StartCall ==
    /\ UserCanAct
    /\ calls.start.pc = "idle"
    /\ IF HasInvalidTimer(appState.timers)
       THEN /\ calls' = [calls EXCEPT !.lastCalled = "start"]
            /\ lastOp' = Op("startMeditation", FALSE, 0, 0)
       ELSE /\ calls' = [calls EXCEPT !.start = [pc |-> "playChime",
                                                 validated |-> Some(appState.timers)],
                                      !.lastCalled = "start"]
            /\ UNCHANGED lastOp
    /\ UNCHANGED <<appState, storage, now, appStatus, keepAwake, handlerState, ticks,
                   runEdits>>

\* "await playChime()" settles, resolved or caught: on to
\* "await activateKeepAwakeAsync()"
StartChimeSettles ==
    /\ calls.start.pc = "playChime"
    /\ calls' = [calls EXCEPT !.start.pc = "activateKeepAwake"]
    /\ UNCHANGED <<appState, storage, now, appStatus, keepAwake, handlerState, ticks,
                   runEdits, lastOp>>

\* "await activateKeepAwakeAsync()" settles, resolved or caught: setAppState
\* with the start updater, return true
StartKeepAwakeSettles ==
    /\ calls.start.pc = "activateKeepAwake"
    /\ \E activated \in BOOLEAN : keepAwake' = (activated \/ keepAwake)
    /\ SetAppState(StartUpdate(appState))
    /\ calls' = [calls EXCEPT !.start.pc = "idle"]
    /\ ticks' = 0
    /\ runEdits' = IF appState.isRunning THEN runEdits ELSE 0
    /\ lastOp' = Op("startMeditation", TRUE, 0, 1)
    /\ UNCHANGED <<storage, now, appStatus>>

\* stopMeditation up to its first await: deactivateKeepAwake()
StopCall ==
    /\ UserCanAct
    /\ calls.stop.pc = "idle"
    /\ keepAwake' = FALSE
    /\ calls' = [calls EXCEPT !.stop.pc = "removeTimestamp", !.lastCalled = "stop"]
    /\ UNCHANGED <<appState, storage, now, appStatus, handlerState, ticks, runEdits,
                   lastOp>>

\* await AsyncStorage.removeItem(BACKGROUND_TIMESTAMP_KEY)
StopRemoveTimestamp ==
    /\ calls.stop.pc = "removeTimestamp"
    /\ storage' = [storage EXCEPT !.timestamp = None]
    /\ calls' = [calls EXCEPT !.stop.pc = "removeState"]
    /\ UNCHANGED <<appState, now, appStatus, keepAwake, handlerState, ticks, runEdits,
                   lastOp>>

\* await AsyncStorage.removeItem(TIMER_STATE_KEY), then setAppState with the
\* stop updater
StopRemoveState ==
    /\ calls.stop.pc = "removeState"
    /\ storage' = [storage EXCEPT !.state = None, !.malformed = FALSE]
    /\ SetAppState(StopUpdate(appState))
    /\ calls' = [calls EXCEPT !.stop.pc = "idle"]
    /\ ticks' = 0
    /\ lastOp' = Op("stopMeditation", TRUE, 0, 0)
    /\ UNCHANGED <<now, appStatus, keepAwake, runEdits>>

\* the setup and session screens over startMeditation and stopMeditation, with
\* the edits of the segments there are
NextStartStop ==
    \/ UpdateTime
    \/ RemoveTimer
    \/ StartCall
    \/ StartChimeSettles
    \/ StartKeepAwakeSettles
    \/ StopCall
    \/ StopRemoveTimestamp
    \/ StopRemoveState

SpecStartStop == Init /\ [][NextStartStop]_vars

\* ------------------------------------------------------------------ claims
RunningCount(timers) ==
    Cardinality({i \in 1..Len(timers) : timers[i].status = "running"})

\* the state stopMeditation leaves: nothing running, every timer pending and full
IsPendingBaseline(state) ==
    /\ ~state.isRunning
    /\ state.currentTimerIndex = -1
    /\ \A i \in 1..Len(state.timers) :
        /\ state.timers[i].status = "pending"
        /\ state.timers[i].minutes = state.timers[i].originalMinutes
        /\ state.timers[i].seconds = state.timers[i].originalSeconds

\* C1: in every reachable state at most one segment is running, and no segment
\* is running exactly when isRunning is false.
C1_OneRunningIffIsRunning ==
    /\ RunningCount(appState.timers) <= 1
    /\ (RunningCount(appState.timers) = 0) <=> ~appState.isRunning

IsRemaining(timer, minutes, seconds) ==
    timer.minutes = minutes /\ timer.seconds = seconds

IsFull(timer) == IsRemaining(timer, timer.originalMinutes, timer.originalSeconds)

\* the session is over and every timer is completed
IsFinished(state) ==
    /\ ~state.isRunning
    /\ state.currentTimerIndex = -1
    /\ \A i \in 1..Len(state.timers) : state.timers[i].status = "completed"

\* the foreground handler reconciles from a running current timer
Reconciling ==
    /\ OnForeground
    /\ ForegroundReconciles
    /\ ~ForegroundParseThrows
    /\ ReconcileActs(appState)

\* C2: n ticks of a running session, with no backgrounding, leave the session
\* that one reconciliation with elapsed = n leaves (stated for sessions that no
\* edit touched while they ran).  The code breaks it at every segment boundary.
RECURSIVE TicksApplied(_, _)
TicksApplied(state, n) ==
    IF n = 0 THEN state
    ELSE TicksApplied(IF state.isRunning /\ state.currentTimerIndex # -1
                      THEN TickUpdate(state) ELSE state, n - 1)

C2_TicksEqualReconcile ==
    (appState.isRunning /\ runEdits = 0) =>
        \A n \in 0..MaxCompareTicks :
            TicksApplied(appState, n) = ApplyElapsed(appState, n)

\* C3: whatever the state before, stopMeditation leaves isRunning false,
\* currentTimerIndex -1 and every segment pending with its full duration.
C3_StopResets ==
    lastOp.op = "stopMeditation" => IsPendingBaseline(appState)

C3_Witness ==
    /\ lastOp.op = "stopMeditation"
    /\ lastOp.wasRunning
    /\ Len(appState.timers) = 2
    /\ IsPendingBaseline(appState)

\* C4: with a segment of original duration 0:00, startMeditation returns false
\* and leaves the session as it was.
AnyZeroDuration(timers) ==
    \E i \in 1..Len(timers) : OriginalSeconds(timers[i]) = 0

C4_ZeroDurationRejected ==
    [][(StartMeditation /\ AnyZeroDuration(appState.timers)) =>
            (~lastOp'.ret /\ appState' = appState)]_vars

C4_Witness ==
    /\ lastOp.op = "startMeditation"
    /\ ~lastOp.ret
    /\ Len(appState.timers) = 2
    /\ AnyZeroDuration(appState.timers)
    /\ ~AnyZeroDuration(SubSeq(appState.timers, 1, 1))

\* C5: startMeditation on an empty segment sequence returns false and changes
\* nothing.  The code returns true and sets isRunning with currentTimerIndex 0.
C5_EmptyRejected ==
    [][(StartMeditation /\ Len(appState.timers) = 0) =>
            (~lastOp'.ret /\ appState' = appState)]_vars

\* C6: with every segment longer than 0:00, startMeditation returns true and
\* leaves isRunning, index 0, segment 0 running, the others pending, all full.
C6_StartResets ==
    [][(StartMeditation /\ ~AnyZeroDuration(appState.timers)) =>
            /\ lastOp'.ret
            /\ appState'.isRunning
            /\ appState'.currentTimerIndex = 0
            /\ Len(appState'.timers) = Len(appState.timers)
            /\ \A i \in 1..Len(appState'.timers) :
                /\ appState'.timers[i].status = IF i = 1 THEN "running" ELSE "pending"
                /\ IsFull(appState'.timers[i])
                /\ appState'.timers[i].id = appState.timers[i].id
                /\ OriginalSeconds(appState'.timers[i]) = OriginalSeconds(appState.timers[i])
      ]_vars

\* a restart from the second segment of a running session
C6_Witness ==
    /\ lastOp.op = "startMeditation"
    /\ lastOp.ret
    /\ lastOp.wasRunning
    /\ Len(appState.timers) = 2
    /\ appState.timers[1].status = "running"
    /\ ticks = 0

\* full completion: the step that ends a running session without a stop
FullyCompleted ==
    /\ lastOp.op \in {"tick", "foreground"}
    /\ lastOp.wasRunning
    /\ ~appState.isRunning

\* C7 as claimed: full completion leaves the pending baseline of stopMeditation
\* (taken for sessions that no edit touched while they ran).
C7_CompletionResets ==
    (FullyCompleted /\ runEdits = 0) => IsPendingBaseline(appState)

\* C7 as amended: full completion, by tick or by reconciliation, leaves the
\* session finished, not reset: isRunning false, currentTimerIndex -1, every
\* segment completed, the last one at 0:00, and all of them at 0:00 unless a
\* segment was edited while the session ran.
C7_CompletionFinishes ==
    FullyCompleted =>
        /\ IsFinished(appState)
        /\ Len(appState.timers) > 0
        /\ IsRemaining(appState.timers[Len(appState.timers)], 0, 0)
        /\ (runEdits = 0 \/ lastOp.op = "foreground") =>
                \A i \in 1..Len(appState.timers) : IsRemaining(appState.timers[i], 0, 0)

C7_Witness ==
    /\ FullyCompleted
    /\ lastOp.op = "foreground"
    /\ runEdits = 0
    /\ Len(appState.timers) = 2

\* the scenario of C8: two segments of 0:02 and 0:03
ScenarioTimers(state) ==
    /\ Len(state.timers) = 2
    /\ OriginalSeconds(state.timers[1]) = 2
    /\ OriginalSeconds(state.timers[2]) = 3

ScenarioAt(state, index, seconds) ==
    /\ ScenarioTimers(state)
    /\ state.isRunning
    /\ state.currentTimerIndex = index
    /\ \A i \in 1..2 :
        IF i - 1 < index
        THEN state.timers[i].status = "completed" /\ IsRemaining(state.timers[i], 0, 0)
        ELSE IF i - 1 = index
        THEN state.timers[i].status = "running" /\ IsRemaining(state.timers[i], 0, seconds)
        ELSE state.timers[i].status = "pending" /\ IsFull(state.timers[i])

ScenarioFinished(state) ==
    /\ ScenarioTimers(state)
    /\ IsFinished(state)
    /\ \A i \in 1..2 : IsRemaining(state.timers[i], 0, 0)

ScenarioStart ==
    (StartMeditation /\ ScenarioTimers(appState)) => ScenarioAt(appState', 0, 2)

ScenarioFirstSecond ==
    (Reconciling /\ ScenarioAt(appState, 0, 2) /\ ForegroundElapsed = 1)
        => ScenarioAt(appState', 0, 1)

\* C8 as claimed: start leaves segment 0 running at 0:02, elapsed = 1 leaves it
\* at 0:01, a further elapsed = 4 leaves segment 0 completed and segment 1
\* running at 0:01, and one more elapsed = 1 finishes the session.
C8_ScenarioAsClaimed ==
    [][/\ ScenarioStart
       /\ ScenarioFirstSecond
       /\ (Reconciling /\ ScenarioAt(appState, 0, 1) /\ ForegroundElapsed = 4)
            => ScenarioAt(appState', 1, 1)
       /\ (Reconciling /\ ScenarioAt(appState, 1, 1) /\ ForegroundElapsed = 1)
            => ScenarioFinished(appState')
      ]_vars

\* C8 as amended: start leaves segment 0 running at 0:02; a background period
\* with elapsed = 1 leaves it running at 0:01; a further one with elapsed = 4
\* uses the 1 s left of segment 0 and all 3 s of segment 1, so the session is
\* finished there, both segments completed at 0:00 with currentTimerIndex -1;
\* one more background period changes nothing.
C8_Scenario ==
    [][/\ ScenarioStart
       /\ ScenarioFirstSecond
       /\ (Reconciling /\ ScenarioAt(appState, 0, 1) /\ ForegroundElapsed = 4)
            => ScenarioFinished(appState')
       /\ ((OnBackground \/ OnForeground) /\ ScenarioFinished(appState))
            => appState' = appState
      ]_vars

C8_Witness ==
    /\ ScenarioFinished(appState)
    /\ lastOp.op = "foreground"
    /\ lastOp.elapsed = 4
    /\ lastOp.wasRunning
    /\ runEdits = 0

\* C9: reconciling with elapsed equal to the current segment's remaining
\* seconds, a next segment existing, advances exactly one boundary.  The code
\* does not when the remaining time is 0:00 (elapsed 0 is skipped).
C9_ExactBoundary ==
    [][(/\ Reconciling
        /\ runEdits = 0
        /\ HasNextTimer(appState)
        /\ now - ValueOf(storage.timestamp) >=
                MsPerSecond * RemainingSeconds(CurrentTimer(appState))
        /\ now - ValueOf(storage.timestamp) <
                MsPerSecond * (RemainingSeconds(CurrentTimer(appState)) + 1))
       => /\ appState'.isRunning
          /\ appState'.currentTimerIndex = appState.currentTimerIndex + 1
          /\ Len(appState'.timers) = Len(appState.timers)
          /\ \A i \in 1..Len(appState.timers) :
                IF i - 1 = appState.currentTimerIndex
                THEN appState'.timers[i] =
                        [appState.timers[i] EXCEPT !.status = "completed",
                                                   !.minutes = 0, !.seconds = 0]
                ELSE IF i - 1 = appState.currentTimerIndex + 1
                THEN appState'.timers[i] =
                        [appState.timers[i] EXCEPT
                            !.status = "running",
                            !.minutes = appState.timers[i].originalMinutes,
                            !.seconds = appState.timers[i].originalSeconds]
                ELSE appState'.timers[i] = appState.timers[i]
      ]_vars

\* C10: a foreground event less than a second after the background event
\* (elapsed 0) leaves the session as it is, also with the current segment
\* running at 0:00.
C10_ZeroElapsedNoOp ==
    [][(/\ OnForeground
        /\ ForegroundReconciles
        /\ now - ValueOf(storage.timestamp) < MsPerSecond)
       => appState' = appState]_vars

C10_Witness ==
    /\ lastOp.op = "foreground"
    /\ lastOp.ret
    /\ lastOp.elapsed = 0
    /\ appState.isRunning
    /\ HasCurrentTimer(appState)
    /\ CurrentTimer(appState).status = "running"
    /\ IsRemaining(CurrentTimer(appState), 0, 0)

\* the seconds the session has left from its current timer to the end of
\* timers[last]: the current timer's remaining time and the later originals
RECURSIVE SecondsLeftThrough(_, _)
SecondsLeftThrough(state, last) ==
    IF last <= state.currentTimerIndex
    THEN RemainingSeconds(CurrentTimer(state))
    ELSE SecondsLeftThrough(state, last - 1) + OriginalSeconds(state.timers[last + 1])

\* a reconciliation that subtracted elapsed seconds and left the session running
Landed ==
    /\ Reconciling
    /\ ForegroundElapsed > 0
    /\ appState'.isRunning

LandedWhere(state, landing, remainder) ==
    /\ state.currentTimerIndex = landing
    /\ landing >= 0 /\ landing < Len(state.timers)
    /\ \A i \in 1..Len(state.timers) :
        IF i - 1 < landing
        THEN state.timers[i].status = "completed" /\ IsRemaining(state.timers[i], 0, 0)
        ELSE IF i - 1 = landing
        THEN /\ state.timers[i].status = "running"
             /\ IsRemaining(state.timers[i], remainder \div SecondsPerMinute,
                                             remainder % SecondsPerMinute)
             /\ remainder >= 1
             /\ remainder <= OriginalSeconds(state.timers[i])
        ELSE state.timers[i].status = "pending" /\ IsFull(state.timers[i])

\* C11: a reconciliation that lands inside a segment leaves it running with
\* the remainder as (div 60, mod 60), the remainder within 1..its duration,
\* the earlier segments completed at 0:00, the later ones pending and full.
C11_Landing ==
    [][Landed =>
        LandedWhere(appState', appState'.currentTimerIndex,
                    SecondsLeftThrough(appState, appState'.currentTimerIndex)
                        - ForegroundElapsed)]_vars

\* C11 for sessions that no edit touched while they ran
C11_LandingUnedited ==
    [][(Landed /\ runEdits = 0) =>
        LandedWhere(appState', appState'.currentTimerIndex,
                    SecondsLeftThrough(appState, appState'.currentTimerIndex)
                        - ForegroundElapsed)]_vars

\* C12: a reconciliation whose elapsed seconds are at least the seconds the
\* session has left finishes it: every segment completed, index -1, not
\* running.  The code skips elapsed = 0, which is "at least" for a session
\* whose last segment is running at 0:00.
C12_ElapsedCoversSession ==
    [][(/\ Reconciling
        /\ ForegroundElapsed >= SecondsLeftThrough(appState, Len(appState.timers) - 1))
       => IsFinished(appState')]_vars

\* C12 for elapsed >= 1
C12_PositiveElapsedCoversSession ==
    [][(/\ Reconciling
        /\ ForegroundElapsed > 0
        /\ ForegroundElapsed >= SecondsLeftThrough(appState, Len(appState.timers) - 1))
       => IsFinished(appState')]_vars

\* C13: the reconciliation plays no chime.  The code calls playChime once
\* for every segment the while loop completes.
C13_ReconcileSilent ==
    lastOp.op = "foreground" => lastOp.chimes = 0

\* C14: after any foreground event the store holds neither key.  The code
\* removes them inside the try block, after JSON.parse.
C14_ForegroundClears ==
    [][OnForeground => storage' = EmptyStorage]_vars

\* C14 for a store holding what the program wrote
C14_ForegroundClearsParsed ==
    [][(OnForeground /\ ~storage.malformed) => storage' = EmptyStorage]_vars

\* C15: with a malformed snapshot, or a snapshot without a timestamp, the
\* foreground event reconciles nothing and still clears both keys.  The code
\* leaves both keys when JSON.parse throws.
C15_BadSnapshotCleared ==
    [][(/\ OnForeground
        /\ storage.state # None
        /\ (storage.malformed \/ storage.timestamp = None))
       => (appState' = appState /\ storage' = EmptyStorage)]_vars

\* C15 without the clearing: nothing is reconciled
C15_BadSnapshotNotApplied ==
    [][(/\ OnForeground
        /\ storage.state # None
        /\ (storage.malformed \/ storage.timestamp = None))
       => appState' = appState]_vars

SegmentEdit == AddTimer \/ UpdateTime \/ UpdateLabel \/ RemoveTimer

\* C16: addTimer, updateTimer and removeTimer are no-ops while isRunning.
\* The code applies them whatever isRunning is.
C16_EditsIgnoredWhileRunning ==
    [][(SegmentEdit /\ appState.isRunning) => appState' = appState]_vars

\* C17: updateTimer and removeTimer with an id that no segment carries leave
\* the whole session as it is.
C17_UnknownIdNoOp ==
    [][((UpdateTime \/ UpdateLabel \/ RemoveTimer) /\ ~lastOp'.ret)
            => appState' = appState]_vars

C17_Witness ==
    /\ lastOp.op = "removeTimer"
    /\ ~lastOp.ret
    /\ lastOp.wasRunning
    /\ Len(appState.timers) = 2

DistinctIds(timers) ==
    \A i, j \in 1..Len(timers) : timers[i].id = timers[j].id => i = j

C19_IndexInRange ==
    \/ appState.currentTimerIndex = -1
    \/ HasCurrentTimer(appState)

\* C20: no segment has more remaining time than its original duration, and
\* none has less than none.  An edit of a running segment breaks the former.
C20_RemainingWithinOriginal ==
    \A i \in 1..Len(appState.timers) :
        /\ RemainingSeconds(appState.timers[i]) >= 0
        /\ RemainingSeconds(appState.timers[i]) <= OriginalSeconds(appState.timers[i])

\* C20 for sessions that no edit touched while they ran
C20_RemainingWithinOriginalUnedited ==
    runEdits = 0 => C20_RemainingWithinOriginal

\* the remaining time is never negative and its seconds stay below a minute
C20_RemainingNotNegative ==
    \A i \in 1..Len(appState.timers) :
        /\ appState.timers[i].minutes >= 0
        /\ appState.timers[i].seconds >= 0
        /\ appState.timers[i].seconds < SecondsPerMinute

\* C21: a completed segment has 0:00 left and a pending segment has its full
\* duration left, also after the setup screen edits a segment of a finished
\* session (taken for sessions that no edit touched while they ran).  The code
\* writes the edited value into the remaining time of a completed segment.
C21_CompletedZeroPendingFull ==
    runEdits = 0 =>
        \A i \in 1..Len(appState.timers) :
            /\ appState.timers[i].status = "completed"
                    => IsRemaining(appState.timers[i], 0, 0)
            /\ appState.timers[i].status = "pending" => IsFull(appState.timers[i])

\* C21 for the pending segments alone, in every state
C21_PendingFull ==
    \A i \in 1..Len(appState.timers) :
        appState.timers[i].status = "pending" => IsFull(appState.timers[i])

\* C22: when a session stops being running the wake lock is released, on
\* every path that ends it.  The reconciliation that finishes a session does
\* not release it.
C22_WakeLockReleased ==
    [][(appState.isRunning /\ ~appState'.isRunning) => ~keepAwake']_vars

\* C22 for the sessions ended by stopMeditation or by a tick
C22_WakeLockReleasedByStopAndTick ==
    [][((StopMeditation \/ Tick) /\ appState.isRunning /\ ~appState'.isRunning)
            => ~keepAwake']_vars

\* C23: the snapshot onBackground stores while the session runs is the session
\* of that moment, ticks applied; when no session runs nothing is stored.  The
\* code stores the session its closure holds, the one of the last change of
\* isRunning or currentTimerIndex (taken for sessions that no edit touched
\* while they ran).
C23_SnapshotIsCurrent ==
    [][(OnBackground /\ runEdits = 0) =>
        IF appState.isRunning
        THEN storage'.state = Some(appState) /\ storage'.timestamp = Some(now)
        ELSE storage' = storage]_vars

\* C23 for the timestamp, and for the session that is not running
C23_TimestampOrNothing ==
    [][OnBackground =>
        IF appState.isRunning
        THEN storage'.state # None /\ storage'.timestamp = Some(now)
        ELSE storage' = storage]_vars

\* C24: the session a foreground reconciliation produces is a function of the
\* stored snapshot and the elapsed seconds alone: the reconciler applied to
\* that snapshot.  The code never reads the parsed snapshot and reconciles the
\* session in memory.
C24_ResultFromSnapshot ==
    [][(Reconciling /\ runEdits = 0) =>
        appState' = ApplyElapsed(ValueOf(storage.state), ForegroundElapsed)]_vars

\* what the code does instead: the reconciler applied to the session in memory
C24_ResultFromMemory ==
    [][Reconciling => appState' = ApplyElapsed(appState, ForegroundElapsed)]_vars

\* C25: between a background event and the next foreground event no tick
\* changes the session.  The interval of the code is not cleared on a
\* background event and fires for as long as the platform runs its timers.
C25_NoTickInBackground ==
    [][(appStatus = "background" /\ appStatus' = "background")
            => appState' = appState]_vars

CurrentCompletes ==
    /\ HasCurrentTimer(appState)
    /\ CurrentTimer(appState).status = "running"
    /\ Len(appState'.timers) = Len(appState.timers)
    /\ appState'.timers[appState.currentTimerIndex + 1].status = "completed"

RECURSIVE CumulativeSeconds(_, _)
CumulativeSeconds(timers, i) ==
    IF i = 0 THEN 0 ELSE CumulativeSeconds(timers, i - 1) + OriginalSeconds(timers[i])

\* C28: a successful startMeditation schedules one notification per segment,
\* the i-th delayed by the durations of segments 0..i.  The code schedules
\* none.
C28_NotificationPerSegment ==
    [][(StartMeditation /\ lastOp'.ret) =>
        /\ Len(ScheduledDelays(appState'.timers)) = Len(appState'.timers)
        /\ \A i \in 1..Len(appState'.timers) :
            ScheduledDelays(appState'.timers)[i] = CumulativeSeconds(appState'.timers, i)
      ]_vars

\* C29: a tick of a running segment with time left takes exactly one second
\* off, borrowing from the minutes at :00, and changes nothing else; a tick of
\* a running segment at 0:00 completes it.
C29_TickDecrementsOrCompletes ==
    [][(Tick /\ TickActs(appState)) =>
        LET k == appState.currentTimerIndex + 1
            t == appState.timers[k]
        IN  IF RemainingSeconds(t) > 0
            THEN /\ appState' =
                        [appState EXCEPT
                            !.timers[k].minutes = IF t.seconds = 0 THEN t.minutes - 1
                                                  ELSE t.minutes,
                            !.timers[k].seconds = IF t.seconds = 0 THEN MaxSecondsValue
                                                  ELSE t.seconds - 1]
                 /\ RemainingSeconds(appState'.timers[k]) = RemainingSeconds(t) - 1
            ELSE /\ appState'.timers[k].status = "completed"
                 /\ IsRemaining(appState'.timers[k], 0, 0)
      ]_vars

\* a tick that borrowed from the minutes
C29_Witness ==
    /\ lastOp.op = "tick"
    /\ HasCurrentTimer(appState)
    /\ CurrentTimer(appState).status = "running"
    /\ IsRemaining(CurrentTimer(appState), DefaultMinutes - 1, MaxSecondsValue)

\* C30: no segment is running with 0:00 left (taken for sessions that no edit
\* touched while they ran).  The tick that reaches 0:00 leaves the segment
\* running; the next tick completes it.
C30_NoRunningAtZero ==
    runEdits = 0 =>
        \A i \in 1..Len(appState.timers) :
            appState.timers[i].status = "running"
                => RemainingSeconds(appState.timers[i]) > 0

\* the segment at position j after the step was pending before it and is
\* running after it
BecomesRunning(j) ==
    /\ appState'.timers[j].status = "running"
    /\ \E i \in 1..Len(appState.timers) :
        /\ appState.timers[i].id = appState'.timers[j].id
        /\ appState.timers[i].status = "pending"

\* C31: a segment goes from pending to running only as segment 0 of a
\* successful startMeditation or as the segment right behind one completed in
\* the same step, the index then pointing at it; by a tick it starts full.
C31_RunningOnlyByAdvance ==
    [][\A j \in 1..Len(appState'.timers) :
        BecomesRunning(j) =>
            /\ appState'.currentTimerIndex = j - 1
            /\ \/ StartMeditation /\ lastOp'.ret /\ j = 1
               \/ /\ j > 1
                  /\ Len(appState'.timers) = Len(appState.timers)
                  /\ appState'.timers[j - 1].status = "completed"
                  /\ appState.timers[j - 1].status # "completed"
            /\ (Tick \/ LateTick) => IsFull(appState'.timers[j])
      ]_vars

\* a reconciliation that crossed one boundary and landed in the second segment
C31_Witness ==
    /\ lastOp.op = "foreground"
    /\ lastOp.chimes = 1
    /\ appState.isRunning
    /\ appState.currentTimerIndex = 1
    /\ Len(appState.timers) = 2
    /\ appState.timers[2].status = "running"
    /\ appState.timers[1].status = "completed"

\* no running segment stands at the current index
NothingToTick(state) ==
    \/ state.currentTimerIndex < 0
    \/ state.currentTimerIndex >= Len(state.timers)
    \/ state.timers[state.currentTimerIndex + 1].status # "running"

\* C32: once isRunning is false no firing of the clock changes the session:
\* the interval exists only while isRunning, and a firing that still arrives
\* with index -1, or with no running segment at the index, changes nothing.
C32_NoTickWhenNotRunning ==
    [][/\ Tick => appState.isRunning
       /\ ((Tick \/ LateTick) /\ (~appState.isRunning \/ NothingToTick(appState)))
            => appState' = appState
      ]_vars

\* a late firing after the tick that completed the last of two segments
C32_Witness ==
    /\ lastOp.op = "lateTick"
    /\ ~appState.isRunning
    /\ Len(appState.timers) = 2
    /\ appState.timers[2].status = "completed"

\* C33: isRunning is true exactly when currentTimerIndex is not -1.
C33_RunningIffIndexSet ==
    appState.isRunning <=> appState.currentTimerIndex # -1

\* a session finished by a reconciliation
C33_Witness ==
    /\ lastOp.op = "foreground"
    /\ lastOp.wasRunning
    /\ lastOp.chimes = 2
    /\ ~appState.isRunning
    /\ appState.currentTimerIndex = -1

\* C34: while a session runs and no segment is edited, the segments before
\* the index are completed at 0:00, the one at the index is running and the
\* ones behind it are pending and full.  A session started on an empty list
\* has no segment at its index.
C34_RunningShape ==
    (appState.isRunning /\ runEdits = 0) =>
        /\ HasCurrentTimer(appState)
        /\ \A i \in 1..Len(appState.timers) :
            IF i - 1 < appState.currentTimerIndex
            THEN /\ appState.timers[i].status = "completed"
                 /\ IsRemaining(appState.timers[i], 0, 0)
            ELSE IF i - 1 = appState.currentTimerIndex
            THEN appState.timers[i].status = "running"
            ELSE appState.timers[i].status = "pending" /\ IsFull(appState.timers[i])

\* C34 for sessions of at least one segment
C34_RunningShapeNonEmpty ==
    Len(appState.timers) > 0 => C34_RunningShape

\* ------------------------------------------------- a session left alone
\* The program with the app in the foreground, segments edited only while no
\* session runs, no stop and no restart of a running session; the interval
\* fires for as long as it exists.
NextForeground ==
    \/ ~appState.isRunning /\ AddTimer
    \/ ~appState.isRunning /\ UpdateTime
    \/ ~appState.isRunning /\ RemoveTimer
    \/ ~appState.isRunning /\ StartMeditation
    \/ TickFires(FALSE)

SpecForeground == Init /\ [][NextForeground]_vars /\ WF_vars(TickFires(FALSE))

\* C35: a session that was started and is left alone in the foreground, its
\* clock firing, eventually is finished: not running, index -1, every segment
\* completed.  A session started on an empty list never is.
C35_EventuallyFinished ==
    appState.isRunning ~> IsFinished(appState)

\* C35 for sessions of at least one segment
C35_EventuallyFinishedNonEmpty ==
    (appState.isRunning /\ Len(appState.timers) > 0) ~> IsFinished(appState)

\* C36: for one background period the elapsed time is subtracted from the
\* session at most once, also when the handlers of several 'active' events
\* overlap between their reads and their deletes.
C36_SubtractedOnce == calls.subtracted <= 1

AppEventsSettled == BackgroundCall.pc = "idle" /\ ForegroundSettled

\* C37: once an onBackground handler and the handler of the foreground event
\* that follows it have both finished, however their steps interleaved, neither
\* the timestamp key nor the state key is in the store.
C37_KeysGoneWhenSettled ==
    (AppEventsSettled /\ appStatus = "active")
        => (storage.timestamp = None /\ storage.state = None)

StartStopSettled == calls.start.pc = "idle" /\ calls.stop.pc = "idle"

\* C38: when stopMeditation was the last of the two to be invoked, then once
\* both calls have completed the session is not running: isRunning false,
\* currentTimerIndex -1, every segment pending.
C38_StopWins ==
    (calls.lastCalled = "stop" /\ StartStopSettled) => IsPendingBaseline(appState)

\* the ids and the durations of the two lists agree, place by place
SameSequence(timers, validated) ==
    /\ Len(timers) = Len(validated)
    /\ \A i \in 1..Len(timers) :
        /\ timers[i].id = validated[i].id
        /\ OriginalSeconds(timers[i]) = OriginalSeconds(validated[i])

\* C39: when a session becomes running, every segment of it has a duration
\* above zero and the sequence is the one startMeditation validated, also when
\* a segment was updated or removed between the validation and the update.
C39_StartsWhatWasValidated ==
    [][StartKeepAwakeSettles =>
            /\ ~AnyZeroDuration(appState'.timers)
            /\ SameSequence(appState'.timers, ValueOf(calls.start.validated))]_vars

\* C39, its first half: no session starts with a segment of duration zero
\* among as many segments as were validated
C39_NoZeroDurationStarted ==
    [][(StartKeepAwakeSettles
            /\ Len(appState'.timers) = Len(ValueOf(calls.start.validated)))
        => ~AnyZeroDuration(appState'.timers)]_vars

====
